---- MODULE Spec2Model ----
(***************************************************************************)
(* Nova: a TTL-aware cache orchestrator (src/src/cache.ts) on top of a     *)
(* storage adapter: MemoryStore (src/src/stores/memoryStore.ts) or         *)
(* FsCacheStore (src/unnamed/part_000, the repository's stores/fsStore.ts).*)
(*                                                                         *)
(* Optional values (JavaScript's `x?: T`) are sequences of length at most  *)
(* one: <<>> is undefined/absent, <<x>> is present.  The JavaScript value  *)
(* `undefined`, as a value a caller stores or a producer returns, is the   *)
(* string Undefined; Nova.get returns it for a miss as well.               *)
(***************************************************************************)
EXTENDS Integers, Sequences, FiniteSets, TLC

\* ------------------------------------------------------------------ bounds
\* The clock (Date.now()) runs over 0..MaxTime.
MaxTime == 2
\* Durations passed as ttl run over -1..MaxTTL (0: the no-expiration sentinel).
MaxTTL == 1

\* ----------------------------------------------------------------- domains
Keys == {"k1", "k2"}
Undefined == "undefined"
Values == {"a", "b", Undefined}
None == <<>>
Some(x) == <<x>>
Durations == -1 .. MaxTTL
TTLs == {None} \cup {Some(d) : d \in Durations}
StoreKinds == {"memory", "fs"}
\* What the producer fn passed to wrap does when invoked: it resolves to a
\* value, or it fails (Throws: the promise rejects).
Throws == "throws"
FnOutcomes == Values \cup {Throws}

\* ------------------------------------------------------------- MemoryStore
\* The Map<string, CacheEntry>: a function from keys to an optional entry.
EmptyMap == [k \in Keys |-> None]

MemoryStoreClear(s) == [s EXCEPT !.map = EmptyMap]

\* set that merges into the entry it finds: `expiresAt: options?.expiresAt ??
\* old?.expiresAt` keeps the previous expiresAt when the new one is undefined.
MemoryStoreSetMerge(s, key, value, expiresAt) ==
    [s EXCEPT !.map[key] =
        Some([key |-> key, value |-> value,
              expiresAt |-> IF expiresAt = None /\ s.map[key] # None
                            THEN s.map[key][1].expiresAt ELSE expiresAt])]

MemoryStoreSet(s, key, value, expiresAt) ==
    [s EXCEPT !.map[key] = Some([key |-> key, value |-> value, expiresAt |-> expiresAt])]

MemoryStoreGet(s, key) == s.map[key]

\* delete that empties the Map (`this.map.clear()` for `this.map.delete(key)`).
MemoryStoreDeleteAll(s, key) == MemoryStoreClear(s)

MemoryStoreDelete(s, key) == [s EXCEPT !.map[key] = None]

MemoryStoreMeta(s) ==
    [ok |-> TRUE,
     list |-> {[key |-> s.map[k][1].key, expiresAt |-> s.map[k][1].expiresAt] :
                  k \in {x \in Keys : s.map[x] # None}}]

MemoryStoreGetMeta(s, key) ==
    LET entry == MemoryStoreGet(s, key) IN
    IF entry = None THEN None
    ELSE Some([key |-> entry[1].key, expiresAt |-> entry[1].expiresAt])

\* ------------------------------------------------------------ FsCacheStore
\* superjson.stringify / superjson.parse: the JSON tree plus the annotation
\* that restores what JSON cannot hold (undefined is written as null with the
\* annotation "undefined").
Stringify(v) ==
    IF v = Undefined THEN [json |-> "null", meta |-> "undefined"]
    ELSE [json |-> v, meta |-> "none"]

Parse(text) == IF text.meta = "undefined" THEN Undefined ELSE text.json

\* The meta file holds {key, expiresAt}; an absent expiresAt is annotated.
StringifyMeta(key, expiresAt) ==
    IF expiresAt = None THEN [key |-> key, expiresAt |-> 0, meta |-> "undefined"]
    ELSE [key |-> key, expiresAt |-> expiresAt[1], meta |-> "none"]

ParseMeta(text) ==
    [key |-> text.key,
     expiresAt |-> IF text.meta = "undefined" THEN None ELSE Some(text.expiresAt)]

\* md5 of the key, as the file name: distinct keys of the model get distinct names.
hashKey(key) == CASE key = "k1" -> "h1" [] key = "k2" -> "h2"
Hashes == {hashKey(k) : k \in Keys}

getPaths(key) == [value |-> hashKey(key), meta |-> hashKey(key)]

NoFiles == [h \in Hashes |-> None]

\* remove(basePath): the directory goes, with every file in it.
FsCacheStoreClear(s) ==
    [s EXCEPT !.dir = FALSE, !.metaFile = NoFiles, !.valueFile = NoFiles]

\* readdir(basePath) fails when the directory does not exist.
FsCacheStoreMeta(s) ==
    IF ~s.dir THEN [ok |-> FALSE, list |-> {}]
    ELSE [ok |-> TRUE,
          list |-> {ParseMeta(s.metaFile[h][1]) : h \in {x \in Hashes : s.metaFile[x] # None}}]

\* readFile failing (no such file) is caught and gives undefined.
FsCacheStoreGetMeta(s, key) ==
    LET f == s.metaFile[getPaths(key).meta] IN
    IF f = None THEN None ELSE Some(ParseMeta(f[1]))

getValue(s, key) ==
    LET f == s.valueFile[getPaths(key).value] IN
    IF f = None THEN Undefined ELSE Parse(f[1])

FsCacheStoreGet(s, key) ==
    LET meta == FsCacheStoreGetMeta(s, key)
        value == getValue(s, key)
    IN  IF meta = None \/ value = Undefined THEN None
        ELSE Some([key |-> meta[1].key, expiresAt |-> meta[1].expiresAt, value |-> value])

\* remove(paths.meta), remove(paths.value): removing a missing file is no error.
removeMeta(s, key) == [s EXCEPT !.metaFile[getPaths(key).meta] = None]
removeValue(s, key) == [s EXCEPT !.valueFile[getPaths(key).value] = None]

\* delete that removes the value file and leaves the meta file behind.
FsCacheStoreDeleteValueOnly(s, key) == removeValue(s, key)

\* Promise.all of the two removes, both run to completion.
FsCacheStoreDelete(s, key) == removeValue(removeMeta(s, key), key)

\* outputFile(paths.value, data), outputFile(paths.meta, meta): each creates
\* the directory when it is missing and replaces the file.
outputValue(s, key, value) ==
    [s EXCEPT !.dir = TRUE, !.valueFile[getPaths(key).value] = Some(Stringify(value))]
outputMeta(s, key, expiresAt) ==
    [s EXCEPT !.dir = TRUE, !.metaFile[getPaths(key).meta] = Some(StringifyMeta(key, expiresAt))]

\* Promise.all of the two writes, both run to completion.
FsCacheStoreSet(s, key, value, expiresAt) ==
    outputMeta(outputValue(s, key, value), key, expiresAt)

\* ---------------------------------------------- CacheStore (the interface)
StoreSet(s, key, value, expiresAt) ==
    IF s.kind = "memory" THEN MemoryStoreSet(s, key, value, expiresAt)
    ELSE FsCacheStoreSet(s, key, value, expiresAt)

StoreGet(s, key) ==
    IF s.kind = "memory" THEN MemoryStoreGet(s, key) ELSE FsCacheStoreGet(s, key)

StoreGetMeta(s, key) ==
    IF s.kind = "memory" THEN MemoryStoreGetMeta(s, key) ELSE FsCacheStoreGetMeta(s, key)

StoreDelete(s, key) ==
    IF s.kind = "memory" THEN MemoryStoreDelete(s, key) ELSE FsCacheStoreDelete(s, key)

StoreClear(s) ==
    IF s.kind = "memory" THEN MemoryStoreClear(s) ELSE FsCacheStoreClear(s)

StoreMeta(s) ==
    IF s.kind = "memory" THEN MemoryStoreMeta(s) ELSE FsCacheStoreMeta(s)

\* new MemoryStore() / new FsCacheStore(basePath) on a fresh base path.
NewStore(kind) ==
    [kind |-> kind, map |-> EmptyMap, dir |-> FALSE, metaFile |-> NoFiles, valueFile |-> NoFiles]

\* -------------------------------------------------------------------- Nova
\* isExpired with the boundary instant counted as expired (>= for >).
isExpiredInclusive(entry, t) ==
    IF entry.expiresAt = None THEN FALSE
    ELSE t >= entry.expiresAt[1]

\* isExpired with `Date.now() > (entry.expiresAt ?? 0)`: no expiresAt counts as 0.
isExpiredDefaultZero(entry, t) ==
    t > (IF entry.expiresAt = None THEN 0 ELSE entry.expiresAt[1])

isExpired(entry, t) ==
    IF entry.expiresAt = None THEN FALSE
    ELSE t > entry.expiresAt[1]

\* resolveTTL with `ttl || this.options.ttl`: an explicit 0 falls back to the default.
resolveTTLOr(options, ttl) ==
    LET resolvedTTL == IF ttl # None /\ ttl # Some(0) THEN ttl ELSE options.ttl IN
    IF resolvedTTL = None \/ resolvedTTL = Some(0) THEN None
    ELSE resolvedTTL

\* resolveTTL with the operands swapped: `this.options.ttl ?? ttl`.
resolveTTLDefaultFirst(options, ttl) ==
    LET resolvedTTL == IF options.ttl # None THEN options.ttl ELSE ttl IN
    IF resolvedTTL = None \/ resolvedTTL = Some(0) THEN None
    ELSE resolvedTTL

\* ttl ?? this.options.ttl, then undefined for undefined and for 0.
resolveTTL(options, ttl) ==
    LET resolvedTTL == IF ttl # None THEN ttl ELSE options.ttl IN
    IF resolvedTTL = None \/ resolvedTTL = Some(0) THEN None
    ELSE resolvedTTL

\* get that reports an expired entry as absent and leaves it in the adapter.
NovaGetNoEvict(s, key, t) ==
    LET cacheEntry == StoreGet(s, key) IN
    IF cacheEntry = None \/ isExpired(cacheEntry[1], t) THEN [store |-> s, ret |-> Undefined]
    ELSE [store |-> s, ret |-> cacheEntry[1].value]

\* Each Nova operation, run to completion at clock reading t on store s:
\* the store it leaves and what it returns.
NovaGet(s, key, t) ==
    LET cacheEntry == StoreGet(s, key) IN
    IF cacheEntry = None THEN [store |-> s, ret |-> Undefined]
    ELSE IF isExpired(cacheEntry[1], t)
         THEN [store |-> StoreDelete(s, cacheEntry[1].key), ret |-> Undefined]
         ELSE [store |-> s, ret |-> cacheEntry[1].value]

\* get when the adapter's delete fails: `await this.store.delete(...)` is not
\* caught, so get fails with it (ret is Throws).  FsCacheStore.delete is a
\* Promise.all of two removes: when it rejects, neither file, or one of the
\* two, has been removed.  The set of possible outcomes.
NovaGetDeleteFails(s, key, t) ==
    {[store |-> s2, ret |-> Throws] :
        s2 \in {s, removeMeta(s, key), removeValue(s, key)}}

\* set with `Date.now() + (resolvedTTL ?? 0)`: every entry gets an expiresAt.
NovaSetAlwaysExpires(s, options, key, value, ttl, t) ==
    LET resolvedTTL == resolveTTL(options, ttl) IN
    StoreSet(s, key, value, Some(t + (IF resolvedTTL = None THEN 0 ELSE resolvedTTL[1])))

\* The first two statements of set: resolvedTTL ? Date.now() + resolvedTTL : undefined.
setExpiresAt(options, ttl, t) ==
    LET resolvedTTL == resolveTTL(options, ttl) IN
    IF resolvedTTL # None /\ resolvedTTL[1] # 0 THEN Some(t + resolvedTTL[1]) ELSE None

\* set that takes a negative ttl for no ttl: `resolvedTTL > 0 ? ... : undefined`.
NovaSetPositiveOnly(s, options, key, value, ttl, t) ==
    LET resolvedTTL == resolveTTL(options, ttl) IN
    StoreSet(s, key, value,
             IF resolvedTTL # None /\ resolvedTTL[1] > 0 THEN Some(t + resolvedTTL[1]) ELSE None)

NovaSet(s, options, key, value, ttl, t) ==
    StoreSet(s, key, value, setExpiresAt(options, ttl, t))

NovaDelete(s, key) == StoreDelete(s, key)

\* wrap that never returns the cached value (the hit test dropped).
wrapAfterGetNoCache(got, options, key, fnResult, wrapOptions, t) ==
    IF fnResult = Throws THEN [store |-> got.store, ret |-> Throws, called |-> TRUE]
    ELSE [store |-> NovaSet(got.store, options, key, fnResult, wrapOptions.ttl, t),
          ret |-> fnResult, called |-> TRUE]

\* wrap that ignores forceRefresh.
wrapAfterGetIgnoreForce(got, options, key, fnResult, wrapOptions, t) ==
    IF got.ret # Undefined
    THEN [store |-> got.store, ret |-> got.ret, called |-> FALSE]
    ELSE IF fnResult = Throws THEN [store |-> got.store, ret |-> Throws, called |-> TRUE]
    ELSE [store |-> NovaSet(got.store, options, key, fnResult, wrapOptions.ttl, t),
          ret |-> fnResult, called |-> TRUE]

\* wrap that stores fn's result without handing options.ttl on to set.
wrapAfterGetDropTTL(got, options, key, fnResult, wrapOptions, t) ==
    IF got.ret # Undefined /\ ~wrapOptions.forceRefresh
    THEN [store |-> got.store, ret |-> got.ret, called |-> FALSE]
    ELSE IF fnResult = Throws THEN [store |-> got.store, ret |-> Throws, called |-> TRUE]
    ELSE [store |-> NovaSet(got.store, options, key, fnResult, None, t),
          ret |-> fnResult, called |-> TRUE]

\* wrap that writes a placeholder for the key before it awaits fn.
wrapAfterGetPlaceholder(got, options, key, fnResult, wrapOptions, t) ==
    IF got.ret # Undefined /\ ~wrapOptions.forceRefresh
    THEN [store |-> got.store, ret |-> got.ret, called |-> FALSE]
    ELSE IF fnResult = Throws
    THEN [store |-> NovaSet(got.store, options, key, Undefined, wrapOptions.ttl, t),
          ret |-> Throws, called |-> TRUE]
    ELSE [store |-> NovaSet(got.store, options, key, fnResult, wrapOptions.ttl, t),
          ret |-> fnResult, called |-> TRUE]

\* wrap after its `await this.get(key)` returned: got is that get's outcome.
\* fnResult is what the producer fn does when it is invoked; when `await fn()`
\* fails, wrap fails with it before it reaches set (ret is Throws).
wrapAfterGet(got, options, key, fnResult, wrapOptions, t) ==
    IF got.ret # Undefined /\ ~wrapOptions.forceRefresh
    THEN [store |-> got.store, ret |-> got.ret, called |-> FALSE]
    ELSE IF fnResult = Throws THEN [store |-> got.store, ret |-> Throws, called |-> TRUE]
    ELSE [store |-> NovaSet(got.store, options, key, fnResult, wrapOptions.ttl, t),
          ret |-> fnResult, called |-> TRUE]

\* wrap that reads the cache before it looks at disableCache.
NovaWrapReadFirst(s, options, key, fnResult, wrapOptions, t) ==
    IF wrapOptions.disableCache
    THEN [store |-> NovaGet(s, key, t).store, ret |-> fnResult, called |-> TRUE]
    ELSE wrapAfterGet(NovaGet(s, key, t), options, key, fnResult, wrapOptions, t)

NovaWrap(s, options, key, fnResult, wrapOptions, t) ==
    IF wrapOptions.disableCache
    THEN [store |-> s, ret |-> fnResult, called |-> TRUE]
    ELSE wrapAfterGet(NovaGet(s, key, t), options, key, fnResult, wrapOptions, t)

\* has without the expiration check.
NovaHasNoExpiry(s, key, t) == StoreGetMeta(s, key) # None

NovaHas(s, key, t) ==
    LET cacheEntryMeta == StoreGetMeta(s, key) IN
    cacheEntryMeta # None /\ ~isExpired(cacheEntryMeta[1], t)

NovaMeta(s) == StoreMeta(s)

NovaClear(s) == StoreClear(s)

\* ------------------------------------------------------------------- state
VARIABLES
    now,        \* Date.now()
    store,      \* the adapter's state (the Map, or the directory and its files)
    options,    \* this.options of the Nova instance: its default ttl
    last,       \* the most recent step: the call, its arguments and its result
    lastSet,    \* per key, the latest set call on it not followed by a delete or clear
    calls,      \* the calls in flight, each at one of its awaits (none under Spec)
    heap        \* the configuration objects callers made and the instances built on them

vars == <<now, store, options, last, lastSet, calls, heap>>

\* The options objects passed to wrap.  Under disableCache wrap returns before it
\* reads ttl or forceRefresh (cache.ts:58-60): those calls pass neither.
WrapOptions ==
    [ttl : TTLs, disableCache : {FALSE}, forceRefresh : BOOLEAN]
        \cup [ttl : {None}, disableCache : {TRUE}, forceRefresh : {FALSE}]

\* The record of a call: its name, arguments and outcome.  absent: the adapter
\* held nothing for the key when the call started; hit: what wrap's own get
\* returned; seq tells a wrap from the wrap on the same key made just before it;
\* over: the entry a set replaced had an expiresAt.
Call(op, key) ==
    [op |-> op, key |-> key, value |-> "-", ttl |-> None, disableCache |-> FALSE,
     forceRefresh |-> FALSE, called |-> FALSE, ret |-> "void", ok |-> TRUE,
     list |-> {}, absent |-> FALSE, hit |-> "-", seq |-> 0, over |-> FALSE]

\* The processes that make calls while others are in flight.
Procs == {"p1", "p2"}

\* A call in flight.  pc: the await it is at ("get": store.get, "evict":
\* store.delete, "fn": the producer, "set": store.set); pending: the file
\* operations of that adapter call still to happen (FsCacheStore starts two at
\* once, MemoryStore acts inside the call); metaRead, valueRead, entry: what
\* store.get has read; expiresAt: what set computed; called: fn was invoked.
Idle ==
    [op |-> "idle", key |-> "-", value |-> "-", ttl |-> None, disableCache |-> FALSE,
     forceRefresh |-> FALSE, pc |-> "idle", pending |-> {}, metaRead |-> None,
     valueRead |-> Undefined, entry |-> None, expiresAt |-> None, called |-> FALSE,
     ret |-> "void"]

\* No call in flight.  written: the calls in the order their store.set
\* completed; together: two calls have been in flight at the same time.
NoCalls == [of |-> [p \in Procs |-> Idle], written |-> <<>>, together |-> FALSE]

\* The configuration objects ({ttl?, store}) callers create, and the Nova
\* instances they construct from them.
Objects == {"o1", "o2"}
Instances == {"n1", "n2"}

\* Nothing created yet.  config: each object's fields once it exists; nova:
\* for each instance constructed, the object its this.options refers to.
EmptyHeap == [config |-> [o \in Objects |-> None], nova |-> [n \in Instances |-> None]]

\* A set call as the caller made it: its value and ttl, the default ttl in force
\* when it passed none, the clock at the call, and who called set (by: the
\* caller of Nova.set, or wrap).
SetRecord(value, ttl, by) ==
    Some([value |-> value, ttl |-> ttl, dflt |-> IF ttl = None THEN options.ttl ELSE None,
          t |-> now, by |-> by])

Init ==
    /\ now = 0
    /\ \E kind \in StoreKinds : store = NewStore(kind)
    /\ \E ttl \in TTLs : options = [ttl |-> ttl]
    /\ last = Call("new", "-")
    /\ lastSet = [k \in Keys |-> None]
    /\ calls = NoCalls
    /\ heap = EmptyHeap

\* Time passes between two calls.
Tick ==
    /\ now < MaxTime
    /\ now' = now + 1
    /\ last' = Call("tick", "-")
    /\ UNCHANGED <<store, options, lastSet, calls, heap>>

\* setDefaultTTL with `this.options.ttl ??= ttl`: a default already set is kept.
SetDefaultTTLOnce(ttl) ==
    /\ options' = [options EXCEPT !.ttl = IF options.ttl = None THEN Some(ttl) ELSE options.ttl]
    /\ last' = [Call("setDefaultTTL", "-") EXCEPT !.ttl = Some(ttl)]
    /\ UNCHANGED <<now, store, lastSet, calls, heap>>

SetDefaultTTL(ttl) ==
    /\ options' = [options EXCEPT !.ttl = Some(ttl)]
    /\ last' = [Call("setDefaultTTL", "-") EXCEPT !.ttl = Some(ttl)]
    /\ UNCHANGED <<now, store, lastSet, calls, heap>>

Get(key) ==
    \E r \in {NovaGet(store, key, now)} :
    /\ store' = r.store
    /\ last' = [Call("get", key) EXCEPT !.ret = r.ret,
                                        !.absent = (StoreGetMeta(store, key) = None)]
    /\ UNCHANGED <<now, options, lastSet, calls, heap>>

Set(key, value, ttl) ==
    /\ store' = NovaSet(store, options, key, value, ttl, now)
    /\ last' = [Call("set", key) EXCEPT
                   !.value = value, !.ttl = ttl,
                   !.over = (StoreGetMeta(store, key) # None
                               /\ StoreGetMeta(store, key)[1].expiresAt # None)]
    /\ lastSet' = [lastSet EXCEPT ![key] = SetRecord(value, ttl, "set")]
    /\ UNCHANGED <<now, options, calls, heap>>

Delete(key) ==
    /\ store' = NovaDelete(store, key)
    /\ last' = [Call("delete", key) EXCEPT !.absent = (StoreGetMeta(store, key) = None)]
    /\ lastSet' = [lastSet EXCEPT ![key] = None]
    /\ UNCHANGED <<now, options, calls, heap>>

\* The record keeps what the call made observable: fn's outcome when fn was
\* invoked, the ttl when it was handed on to set, and ok: the call did not fail.
Wrap(key, fnResult, wrapOptions) ==
    \E r \in {NovaWrap(store, options, key, fnResult, wrapOptions, now)} :
    LET wrote == r.called /\ ~wrapOptions.disableCache /\ r.ret # Throws IN
    /\ store' = r.store
    /\ last' = [op |-> "wrap", key |-> key, value |-> IF r.called THEN fnResult ELSE "-",
                ttl |-> IF wrote THEN wrapOptions.ttl ELSE None,
                disableCache |-> wrapOptions.disableCache,
                forceRefresh |-> wrapOptions.forceRefresh,
                called |-> r.called, ret |-> r.ret, ok |-> r.ret # Throws, list |-> {},
                absent |-> (StoreGetMeta(store, key) = None),
                hit |-> IF wrapOptions.disableCache THEN "-" ELSE NovaGet(store, key, now).ret,
                over |-> FALSE,
                seq |-> IF last.op = "wrap" /\ last.key = key THEN 1 - last.seq ELSE 0]
    /\ lastSet' = IF wrote THEN [lastSet EXCEPT ![key] = SetRecord(fnResult, wrapOptions.ttl, "wrap")]
                  ELSE lastSet
    /\ UNCHANGED <<now, options, calls, heap>>

\* has built on get: it evicts the expired entry it finds.
HasEvicting(key) ==
    /\ store' = NovaGet(store, key, now).store
    /\ last' = [Call("has", key) EXCEPT !.ret = IF NovaHas(store, key, now) THEN "true" ELSE "false"]
    /\ UNCHANGED <<now, options, lastSet, calls, heap>>

Has(key) ==
    /\ last' = [Call("has", key) EXCEPT !.ret = IF NovaHas(store, key, now) THEN "true" ELSE "false"]
    /\ UNCHANGED <<now, store, options, lastSet, calls, heap>>

Meta ==
    \E r \in {NovaMeta(store)} :
    /\ last' = [Call("meta", "-") EXCEPT !.ok = r.ok, !.list = r.list]
    /\ UNCHANGED <<now, store, options, lastSet, calls, heap>>

Clear ==
    /\ store' = NovaClear(store)
    /\ last' = Call("clear", "-")
    /\ lastSet' = [k \in Keys |-> None]
    /\ UNCHANGED <<now, options, calls, heap>>

\* The keys the callers of this specification use.
OpKeys == {"k1"}

Next ==
    \/ Tick
    \/ \E ttl \in Durations : SetDefaultTTL(ttl)
    \/ \E key \in OpKeys : Get(key)
    \/ \E key \in OpKeys, value \in Values, ttl \in TTLs : Set(key, value, ttl)
    \/ \E key \in OpKeys : Delete(key)
    \/ \E key \in OpKeys, fnResult \in FnOutcomes, wrapOptions \in WrapOptions :
           Wrap(key, fnResult, wrapOptions)
    \/ \E key \in OpKeys : Has(key)
    \/ Meta
    \/ Clear

Spec == Init /\ [][Next]_vars

\* ------------------------------------------- several instances, shared objects
\* The caller writes an object literal {ttl, store}.
NewConfig(o, ttl) ==
    /\ heap.config[o] = None
    /\ heap' = [heap EXCEPT !.config[o] = Some([ttl |-> ttl])]
    /\ UNCHANGED <<now, store, options, last, lastSet, calls>>

\* new Nova(o): `this.options = options` keeps a reference to the caller's object.
NewNova(n, o) ==
    /\ heap.nova[n] = None
    /\ heap.config[o] # None
    /\ heap' = [heap EXCEPT !.nova[n] = Some(o)]
    /\ UNCHANGED <<now, store, options, last, lastSet, calls>>

\* n.setDefaultTTL(ttl): `this.options.ttl = ttl` writes the object referred to.
NovaSetDefaultTTL(n, ttl) ==
    /\ heap.nova[n] # None
    /\ heap' = [heap EXCEPT !.config[heap.nova[n][1]] = Some([ttl |-> Some(ttl)])]
    /\ UNCHANGED <<now, store, options, last, lastSet, calls>>

NextInstances ==
    \/ \E o \in Objects, ttl \in TTLs : NewConfig(o, ttl)
    \/ \E n \in Instances, o \in Objects : NewNova(n, o)
    \/ \E n \in Instances, ttl \in Durations : NovaSetDefaultTTL(n, ttl)

\* Callers creating configuration objects and instances, and setting defaults.
SpecInstances == Init /\ [][NextInstances]_vars

\* ------------------------------------------------ an adapter whose delete fails
\* get(key) finds an expired entry and the adapter's delete fails (a remove
\* rejected by the file system; Map.delete of MemoryStore cannot fail).
GetDeleteFails(key) ==
    /\ store.kind = "fs"
    /\ StoreGet(store, key) # None
    /\ isExpired(StoreGet(store, key)[1], now)
    /\ \E r \in NovaGetDeleteFails(store, key, now) :
          /\ store' = r.store
          /\ last' = [Call("get", key) EXCEPT !.ret = r.ret, !.ok = (r.ret # Throws)]
    /\ UNCHANGED <<now, options, lastSet, calls, heap>>

NextFaulty ==
    \/ Tick
    \/ \E key \in OpKeys, value \in Values, ttl \in TTLs : Set(key, value, ttl)
    \/ \E key \in OpKeys : Get(key)
    \/ \E key \in OpKeys : GetDeleteFails(key)
    \/ \E key \in OpKeys : Has(key)

\* set, get and has on an adapter whose delete may fail.
SpecFaulty == Init /\ [][NextFaulty]_vars

\* ------------------------------------------------- calls in flight together
\* Each call runs from one await to the next; between two awaits of one call
\* the steps of the other calls, and the clock, may come in any order.

\* The file operations an adapter call leaves outstanding when it is made.
Files(s) == IF s.kind = "memory" THEN {} ELSE {"meta", "value"}

\* store.get is called for c: MemoryStore reads the Map inside the call.
BeginGet(c, s) ==
    [c EXCEPT !.pc = "get", !.pending = Files(s), !.metaRead = None, !.valueRead = Undefined,
              !.entry = IF s.kind = "memory" THEN MemoryStoreGet(s, c.key) ELSE None]

\* Nova.set is called for c at time t: expiresAt is computed, then store.set called.
BeginSet(c, s, opts, t) ==
    [c EXCEPT !.pc = "set", !.pending = Files(s), !.expiresAt = setExpiresAt(opts, c.ttl, t)]

\* The adapter after store.set was called for c: MemoryStore writes the Map
\* inside the call, FsCacheStore has only started its two writes.
StoreAfterBeginSet(c, s) ==
    IF s.kind = "memory" THEN MemoryStoreSet(s, c.key, c.value, c.expiresAt) ELSE s

\* The order of completed store.set writes, when c's call is made on store s.
WrittenAfterBegin(p, s) ==
    IF s.kind = "memory" THEN Append(calls.written, p) ELSE calls.written

\* p makes its call while another call is in flight.
Together(p) ==
    calls.together \/ \E q \in Procs \ {p} : calls.of[q].pc \notin {"idle", "done"}

\* fn is invoked for c.
BeginFn(c) == [c EXCEPT !.pc = "fn", !.pending = {}, !.called = TRUE]

\* c returns ret to its caller.
Return(c, ret) == [c EXCEPT !.pc = "done", !.pending = {}, !.ret = ret]

Elapse ==
    /\ now < MaxTime
    /\ now' = now + 1
    /\ UNCHANGED <<store, options, last, lastSet, calls, heap>>

CallSet(p, key, value, ttl) ==
    /\ calls.of[p].pc = "idle"
    /\ LET c == BeginSet([Idle EXCEPT !.op = "set", !.key = key, !.value = value, !.ttl = ttl],
                         store, options, now)
       IN  /\ store' = StoreAfterBeginSet(c, store)
           /\ calls' = [calls EXCEPT !.of[p] = c,
                                      !.written = WrittenAfterBegin(p, store),
                                      !.together = Together(p)]
    /\ UNCHANGED <<now, options, last, lastSet, heap>>

CallGet(p, key) ==
    /\ calls.of[p].pc = "idle"
    /\ calls' = [calls EXCEPT !.of[p] = BeginGet([Idle EXCEPT !.op = "get", !.key = key], store),
                              !.together = Together(p)]
    /\ UNCHANGED <<now, store, options, last, lastSet, heap>>

CallWrap(p, key, fnResult, wrapOptions) ==
    /\ calls.of[p].pc = "idle"
    /\ LET c == [Idle EXCEPT !.op = "wrap", !.key = key, !.value = fnResult,
                             !.ttl = wrapOptions.ttl,
                             !.disableCache = wrapOptions.disableCache,
                             !.forceRefresh = wrapOptions.forceRefresh]
       IN  calls' = [calls EXCEPT !.of[p] = IF wrapOptions.disableCache THEN BeginFn(c)
                                            ELSE BeginGet(c, store),
                                  !.together = Together(p)]
    /\ UNCHANGED <<now, store, options, last, lastSet, heap>>

\* One of the two readFile calls of FsCacheStore.get completes.
ReadFile(p, f) ==
    LET c == calls.of[p]
        d == IF f = "meta" THEN [c EXCEPT !.metaRead = FsCacheStoreGetMeta(store, c.key)]
             ELSE [c EXCEPT !.valueRead = getValue(store, c.key)]
    IN  /\ c.pc = "get" /\ f \in c.pending
        /\ calls' = [calls EXCEPT !.of[p] =
               [d EXCEPT !.pending = c.pending \ {f},
                         !.entry = IF c.pending # {f} \/ d.metaRead = None \/ d.valueRead = Undefined
                                   THEN None
                                   ELSE Some([key |-> d.metaRead[1].key,
                                              expiresAt |-> d.metaRead[1].expiresAt,
                                              value |-> d.valueRead])]]
        /\ UNCHANGED <<now, store, options, last, lastSet, heap>>

\* wrap with `if (!options?.forceRefresh) return cachedValue`: a miss returns
\* undefined without invoking fn.
afterGetReturnedNoTest(c, cachedValue) ==
    IF ~c.forceRefresh THEN Return(c, cachedValue) ELSE BeginFn(c)

\* wrap has its cachedValue: it returns it, or goes on to invoke fn.
afterGetReturned(c, cachedValue) ==
    IF cachedValue # Undefined /\ ~c.forceRefresh THEN Return(c, cachedValue) ELSE BeginFn(c)

\* Nova.get has its result: a get call returns it to its caller, a wrap call
\* takes it as its cachedValue.
getReturned(c, value) ==
    IF c.op = "get" THEN Return(c, value) ELSE afterGetReturned(c, value)

\* `await this.store.get(key)` resumes in Nova.get: absent, expired (store.delete
\* is called: MemoryStore deletes inside the call), or live.
GetReturns(p) ==
    LET c == calls.of[p] IN
    /\ c.pc = "get" /\ c.pending = {}
    /\ IF c.entry = None
       THEN /\ calls' = [calls EXCEPT !.of[p] = getReturned(c, Undefined)]
            /\ store' = store
       ELSE IF isExpired(c.entry[1], now)
       THEN /\ calls' = [calls EXCEPT !.of[p] = [c EXCEPT !.pc = "evict", !.pending = Files(store)]]
            /\ store' = IF store.kind = "memory" THEN MemoryStoreDelete(store, c.entry[1].key)
                        ELSE store
       ELSE /\ calls' = [calls EXCEPT !.of[p] = getReturned(c, c.entry[1].value)]
            /\ store' = store
    /\ UNCHANGED <<now, options, last, lastSet, heap>>

\* One of the two removes of FsCacheStore.delete completes (the delete get
\* issued, or the one Nova.delete passed on).
RemoveFile(p, f) ==
    LET c == calls.of[p] IN
    /\ c.pc \in {"evict", "delete"} /\ f \in c.pending
    /\ store' = IF f = "meta" THEN removeMeta(store, c.key) ELSE removeValue(store, c.key)
    /\ calls' = [calls EXCEPT !.of[p].pending = c.pending \ {f}]
    /\ UNCHANGED <<now, options, last, lastSet, heap>>

\* `await this.store.delete(...)` resumes: get returns undefined.
EvictReturns(p) ==
    LET c == calls.of[p] IN
    /\ c.pc = "evict" /\ c.pending = {}
    /\ calls' = [calls EXCEPT !.of[p] = getReturned(c, Undefined)]
    /\ UNCHANGED <<now, store, options, last, lastSet, heap>>

\* `await fn()` resumes: wrap fails with fn, returns (disableCache), or calls set.
FnReturns(p) ==
    LET c == calls.of[p] IN
    /\ c.pc = "fn"
    /\ IF c.value = Throws \/ c.disableCache
       THEN /\ calls' = [calls EXCEPT !.of[p] = Return(c, c.value)]
            /\ store' = store
       ELSE LET d == BeginSet(c, store, options, now) IN
            /\ store' = StoreAfterBeginSet(d, store)
            /\ calls' = [calls EXCEPT !.of[p] = d, !.written = WrittenAfterBegin(p, store)]
    /\ UNCHANGED <<now, options, last, lastSet, heap>>

\* One of the two outputFile calls of FsCacheStore.set completes.
WriteFile(p, f) ==
    LET c == calls.of[p] IN
    /\ c.pc = "set" /\ f \in c.pending
    /\ store' = IF f = "meta" THEN outputMeta(store, c.key, c.expiresAt)
                ELSE outputValue(store, c.key, c.value)
    /\ calls' = [calls EXCEPT !.of[p].pending = c.pending \ {f},
                              !.written = IF c.pending = {f} THEN Append(calls.written, p)
                                          ELSE calls.written]
    /\ UNCHANGED <<now, options, last, lastSet, heap>>

\* `await this.store.set(...)` resumes: set returns, wrap returns fn's result.
SetReturns(p) ==
    LET c == calls.of[p] IN
    /\ c.pc = "set" /\ c.pending = {}
    /\ calls' = [calls EXCEPT !.of[p] = Return(c, IF c.op = "wrap" THEN c.value ELSE "void")]
    /\ UNCHANGED <<now, store, options, last, lastSet, heap>>

\* What the concurrent callers pass.
CallValues == {"a", "b"}
CallTTLs == {None, Some(MaxTTL)}
CallWrapOptions == {w \in WrapOptions : w.ttl \in CallTTLs}

NextCalls ==
    \/ Elapse
    \/ \E p \in Procs, key \in OpKeys, value \in CallValues, ttl \in CallTTLs :
           CallSet(p, key, value, ttl)
    \/ \E p \in Procs, key \in OpKeys, fnResult \in CallValues \cup {Throws},
          wrapOptions \in CallWrapOptions : CallWrap(p, key, fnResult, wrapOptions)
    \/ \E p \in Procs, f \in {"meta", "value"} : ReadFile(p, f)
    \/ \E p \in Procs : GetReturns(p)
    \/ \E p \in Procs, f \in {"meta", "value"} : RemoveFile(p, f)
    \/ \E p \in Procs : EvictReturns(p)
    \/ \E p \in Procs : FnReturns(p)
    \/ \E p \in Procs, f \in {"meta", "value"} : WriteFile(p, f)
    \/ \E p \in Procs : SetReturns(p)

\* Two processes, one call each, interleaved at their awaits.
SpecCalls == Init /\ [][NextCalls]_vars

\* ------------------------------------------ a get in flight with a set or wrap
\* Before any call is in flight, a set run to completion puts an entry in place.
Populate(key, value, ttl) ==
    /\ calls = NoCalls
    /\ lastSet[key] = None
    /\ Set(key, value, ttl)

\* One process calls get(k), the other set(k, ...) or wrap(k, ...), over an
\* entry that is in place, interleaved at their awaits.
NextEvict ==
    \/ Elapse
    \/ \E key \in OpKeys, value \in CallValues, ttl \in CallTTLs : Populate(key, value, ttl)
    \/ \E key \in OpKeys : CallGet("p1", key)
    \/ \E key \in OpKeys, value \in CallValues, ttl \in CallTTLs :
           CallSet("p2", key, value, ttl)
    \/ \E key \in OpKeys, fnResult \in CallValues, wrapOptions \in CallWrapOptions :
           CallWrap("p2", key, fnResult, wrapOptions)
    \/ \E p \in Procs, f \in {"meta", "value"} : ReadFile(p, f)
    \/ \E p \in Procs : GetReturns(p)
    \/ \E p \in Procs, f \in {"meta", "value"} : RemoveFile(p, f)
    \/ \E p \in Procs : EvictReturns(p)
    \/ \E p \in Procs : FnReturns(p)
    \/ \E p \in Procs, f \in {"meta", "value"} : WriteFile(p, f)
    \/ \E p \in Procs : SetReturns(p)

SpecEvict == Init /\ [][NextEvict]_vars

\* ------------------------------------------------- calls on different keys
\* Nova.delete is called: store.delete is called and awaited (MemoryStore
\* deletes inside the call, FsCacheStore has started its two removes).
CallDelete(p, key) ==
    /\ calls.of[p].pc = "idle"
    /\ store' = IF store.kind = "memory" THEN MemoryStoreDelete(store, key) ELSE store
    /\ calls' = [calls EXCEPT !.of[p] = [Idle EXCEPT !.op = "delete", !.key = key,
                                                     !.pc = "delete", !.pending = Files(store)],
                              !.together = Together(p)]
    /\ UNCHANGED <<now, options, last, lastSet, heap>>

\* `return this.store.delete(key)` settles: delete returns.
DeleteReturns(p) ==
    LET c == calls.of[p] IN
    /\ c.pc = "delete" /\ c.pending = {}
    /\ calls' = [calls EXCEPT !.of[p] = Return(c, "void")]
    /\ UNCHANGED <<now, store, options, last, lastSet, heap>>

\* Nova.has is called: store.getMeta is called and awaited (MemoryStore reads
\* the Map inside the call, FsCacheStore has started its readFile).
CallHas(p, key) ==
    /\ calls.of[p].pc = "idle"
    /\ calls' = [calls EXCEPT !.of[p] =
           [Idle EXCEPT !.op = "has", !.key = key, !.pc = "has",
                        !.pending = Files(store) \ {"value"},
                        !.metaRead = IF store.kind = "memory" THEN MemoryStoreGetMeta(store, key)
                                     ELSE None],
                              !.together = Together(p)]
    /\ UNCHANGED <<now, store, options, last, lastSet, heap>>

\* The readFile of FsCacheStore.getMeta completes.
ReadMeta(p) ==
    LET c == calls.of[p] IN
    /\ c.pc = "has" /\ "meta" \in c.pending
    /\ calls' = [calls EXCEPT !.of[p] = [c EXCEPT !.pending = {},
                                                  !.metaRead = FsCacheStoreGetMeta(store, c.key)]]
    /\ UNCHANGED <<now, store, options, last, lastSet, heap>>

\* `await this.store.getMeta(key)` resumes: has returns its answer.
HasReturns(p) ==
    LET c == calls.of[p] IN
    /\ c.pc = "has" /\ c.pending = {}
    /\ calls' = [calls EXCEPT !.of[p] =
           Return(c, IF c.metaRead # None /\ ~isExpired(c.metaRead[1], now)
                     THEN "true" ELSE "false")]
    /\ UNCHANGED <<now, store, options, last, lastSet, heap>>

\* clear() awaited before any call is in flight.
ClearAll ==
    /\ calls = NoCalls
    /\ Clear

\* What the callers of this specification pass, and the key each process uses.
KeyValues == {"a"}
KeyWrapOptions == {w \in WrapOptions : w.ttl = None}
KeyOf(p) == IF p = "p1" THEN "k1" ELSE "k2"

\* Entries are put in place for the keys, then each process makes one call on
\* its own key, interleaved with the other's at their awaits.
NextKeys ==
    \/ Elapse
    \/ \E key \in Keys : Populate(key, "b", None)
    \/ ClearAll
    \/ \E p \in Procs : CallGet(p, KeyOf(p))
    \/ \E p \in Procs, value \in KeyValues, ttl \in CallTTLs : CallSet(p, KeyOf(p), value, ttl)
    \/ \E p \in Procs : CallDelete(p, KeyOf(p))
    \/ \E p \in Procs : CallHas(p, KeyOf(p))
    \/ \E p \in Procs, fnResult \in KeyValues, wrapOptions \in KeyWrapOptions :
           CallWrap(p, KeyOf(p), fnResult, wrapOptions)
    \/ \E p \in Procs, f \in {"meta", "value"} : ReadFile(p, f)
    \/ \E p \in Procs : GetReturns(p)
    \/ \E p \in Procs, f \in {"meta", "value"} : RemoveFile(p, f)
    \/ \E p \in Procs : EvictReturns(p)
    \/ \E p \in Procs : DeleteReturns(p)
    \/ \E p \in Procs : ReadMeta(p)
    \/ \E p \in Procs : HasReturns(p)
    \/ \E p \in Procs : FnReturns(p)
    \/ \E p \in Procs, f \in {"meta", "value"} : WriteFile(p, f)
    \/ \E p \in Procs : SetReturns(p)

SpecKeys == Init /\ [][NextKeys]_vars

\* ------------------------------------------------------------ properties
\* What meta() lists for key k on store s.
ListedMeta(s, k) == {m \in NovaMeta(s).list : m.key = k}

\* The expiresAt of a metadata record lies before time t.
ExpiresAtPassed(m, t) == m.expiresAt # None /\ m.expiresAt[1] < t

\* What a set called at time t must record: the explicit ttl when one is passed,
\* else the default; absent for none and for 0.
ExpectedExpiresAt(ttl, dflt, t) ==
    IF ttl # None THEN (IF ttl[1] = 0 THEN None ELSE Some(t + ttl[1]))
    ELSE IF dflt = None \/ dflt[1] = 0 THEN None ELSE Some(t + dflt[1])

\* C1: after set(k, v, d) with d > 0 made at time t, and no later write or
\* delete on k, a get(k) at any time up to t+d returns v and a get(k) at any
\* time after t+d returns absent.
C1_GetHonoursTTL ==
    \A k \in Keys :
        (/\ last.op = "get" /\ last.key = k
         /\ lastSet[k] # None
         /\ lastSet[k][1].ttl # None
         /\ lastSet[k][1].ttl[1] > 0)
        => last.ret = IF now <= lastSet[k][1].t + lastSet[k][1].ttl[1]
                      THEN lastSet[k][1].value
                      ELSE Undefined

\* A get at exactly t+d that still returns the value.
C1_Witness ==
    /\ last.op = "get" /\ last.key = "k1" /\ last.ret = "a"
    /\ lastSet["k1"] # None
    /\ lastSet["k1"][1].ttl = Some(1)
    /\ now = lastSet["k1"][1].t + 1

\* C2: with no ttl passed and no default ttl configured, set(k, v) followed by
\* get(k) returns v, and the metadata recorded for k has no expiresAt.
C2_NoTTLNoExpiry ==
    \A k \in Keys :
        (lastSet[k] # None /\ lastSet[k][1].ttl = None /\ lastSet[k][1].dflt = None)
        => /\ ListedMeta(store, k) = {[key |-> k, expiresAt |-> None]}
           /\ (last.op = "get" /\ last.key = k => last.ret = lastSet[k][1].value)

C2_Witness ==
    /\ last.op = "get" /\ last.key = "k1" /\ last.ret = "a"
    /\ lastSet["k1"] # None
    /\ lastSet["k1"][1].ttl = None /\ lastSet["k1"][1].dflt = None
    /\ lastSet["k1"][1].t = now

\* The set call resolved to a ttl of exactly 0.
ZeroTTL(w) == w.ttl = Some(0) \/ (w.ttl = None /\ w.dflt = Some(0))

\* C3: a resolved ttl of exactly 0 means no expiration: set(k, v, 0), whatever
\* the default, and set(k, v) under a default of 0, store an entry without
\* expiresAt; get(k) returns v and has(k) returns true however much time passed.
C3_ZeroNeverExpires ==
    \A k \in Keys :
        (lastSet[k] # None /\ ZeroTTL(lastSet[k][1]))
        => /\ StoreGetMeta(store, k) = Some([key |-> k, expiresAt |-> None])
           /\ (last.op = "get" /\ last.key = k => last.ret = lastSet[k][1].value)
           /\ (last.op = "has" /\ last.key = k => last.ret = "true")

\* set(k, v, 0) at time 0 under a positive default, has(k) at the last instant.
C3_Witness ==
    /\ last.op = "has" /\ last.key = "k1" /\ last.ret = "true"
    /\ lastSet["k1"] # None
    /\ lastSet["k1"][1].ttl = Some(0) /\ lastSet["k1"][1].t = 0
    /\ options.ttl = Some(1)
    /\ now = MaxTime

\* The call just made ran Nova.set: a set, or a wrap that stored fn's result.
RanSet(c) == c.op = "set" \/ (c.op = "wrap" /\ c.called /\ c.ok /\ ~c.disableCache)

\* C4: set computes expiresAt from the explicit ttl when one is passed (the
\* default is ignored), from the default current at the call when none is
\* passed, and leaves it absent when neither is present; a nonzero duration
\* gives expiresAt = time of the call + duration.
C4_TTLResolution ==
    RanSet(last) =>
        StoreGetMeta(store, last.key) =
            Some([key |-> last.key,
                  expiresAt |-> ExpectedExpiresAt(last.ttl, options.ttl, now)])

\* An explicit ttl of 1 at time 1 under a default of -1.
C4_Witness ==
    /\ last.op = "set" /\ last.ttl = Some(1)
    /\ options.ttl = Some(-1)
    /\ now = 1
    /\ StoreGetMeta(store, last.key) = Some([key |-> last.key, expiresAt |-> Some(2)])

\* C5: a get(k) that finds an entry whose expiresAt has passed returns absent
\* and deletes the entry: once it has completed the adapter holds nothing for
\* k and meta() no longer lists k.
C5_LazyEviction ==
    [][\A k \in Keys :
          (/\ StoreGet(store, k) # None
           /\ ExpiresAtPassed(StoreGet(store, k)[1], now)
           /\ last'.op = "get" /\ last'.key = k)
          => /\ last'.ret = Undefined
             /\ StoreGet(store', k) = None
             /\ StoreGetMeta(store', k) = None
             /\ ListedMeta(store', k) = {}]_vars

\* A get that found the entry of an earlier set(k, "a", 1) expired and removed it.
C5_Witness ==
    /\ last.op = "get" /\ last.key = "k1" /\ last.ret = Undefined /\ ~last.absent
    /\ lastSet["k1"] # None
    /\ lastSet["k1"][1].value = "a" /\ lastSet["k1"][1].ttl = Some(1)
    /\ now > lastSet["k1"][1].t + 1
    /\ ListedMeta(store, "k1") = {}

\* C6: has(k) returns false when k is absent or its entry is expired and true
\* otherwise, and never modifies the adapter: an expired entry is still listed
\* by meta() after has(k) returned false.
C6_HasReadOnly ==
    [][\A k \in Keys :
          (last'.op = "has" /\ last'.key = k)
          => /\ store' = store
             /\ ListedMeta(store', k) = ListedMeta(store, k)
             /\ last'.ret = IF \E m \in ListedMeta(store, k) : ~ExpiresAtPassed(m, now)
                            THEN "true" ELSE "false"]_vars

\* has returned false for an entry that is expired and still listed.
C6_Witness ==
    /\ last.op = "has" /\ last.ret = "false"
    /\ \E m \in ListedMeta(store, last.key) : ExpiresAtPassed(m, now)

\* has(k) is true exactly when a get(k) made at the same instant returns a value.
HasAgreesWithGet(k) ==
    NovaHas(store, k, now) <=> (NovaGet(store, k, now).ret # Undefined)

PlainWrap(c, k) == c.op = "wrap" /\ c.key = k /\ ~c.disableCache /\ ~c.forceRefresh

\* The call just made was wrap(k, fn) with no ttl on an absent key: fn ran and
\* its result was stored.
FirstWrap(k) == PlainWrap(last, k) /\ last.absent /\ last.called /\ last.ok /\ last.ttl = None

\* This step is the next wrap(k, fn), again with no ttl.
SecondWrap(k) ==
    PlainWrap(last', k) /\ last'.seq # last.seq /\ (last'.called => last'.ttl = None)

\* The second call did not invoke fn, returned what the first stored and wrote nothing.
Memoized == ~last'.called /\ last'.ret = last.value /\ store' = store

\* "With no TTL": the calls pass none, and the default is unset or not negative.
NoTTL == options.ttl = None \/ options.ttl[1] >= 0

\* C8 as claimed: for every initially absent key and every value fn can return,
\* two wrap(k, fn) calls in immediate succession with no TTL invoke fn once in
\* total, and the second returns what the first stored without writing.
C8_Original ==
    [][\A k \in Keys : (FirstWrap(k) /\ NoTTL /\ SecondWrap(k)) => Memoized]_vars

\* C8, amended: so it is for every value other than undefined that fn can return.
C8_WrapMemoizes ==
    [][\A k \in Keys :
          (FirstWrap(k) /\ NoTTL /\ last.value # Undefined /\ SecondWrap(k))
          => Memoized]_vars

\* The second of two consecutive wraps on k1 returned the cached "a" without calling fn.
C8_Witness ==
    /\ PlainWrap(last, "k1") /\ last.seq = 1
    /\ ~last.called /\ last.ret = "a" /\ last.hit = "a"
    /\ lastSet["k1"] # None
    /\ lastSet["k1"][1].ttl = None /\ lastSet["k1"][1].t = now

\* C9: wrap(k, fn, {disableCache: true}) invokes fn on every call, returns its
\* result and leaves the adapter as it was, whether k is absent, live or expired.
C9_DisableCache ==
    [][(last'.op = "wrap" /\ last'.disableCache)
          => /\ last'.called
             /\ last'.ret = last'.value
             /\ store' = store]_vars

\* A disableCache wrap over an expired entry, which is still listed.
C9_Witness ==
    /\ last.op = "wrap" /\ last.disableCache /\ last.called /\ last.ret = "b"
    /\ \E m \in ListedMeta(store, last.key) : ExpiresAtPassed(m, now)

\* The call c was wrap(k, fn, {forceRefresh: true, ttl?}).
ForcedWrap(c) == c.op = "wrap" /\ c.forceRefresh /\ ~c.disableCache /\ c.ok

\* c invoked fn, returned its result and left it stored in s under the resolved expiresAt.
Refreshed(c, s, opts, t) ==
    LET expiresAt == ExpectedExpiresAt(c.ttl, opts.ttl, t) IN
    /\ c.called
    /\ c.ret = c.value
    /\ StoreGetMeta(s, c.key) = Some([key |-> c.key, expiresAt |-> expiresAt])
    /\ (c.value # Undefined
          => StoreGet(s, c.key) = Some([key |-> c.key, value |-> c.value, expiresAt |-> expiresAt]))

\* This step is the get(k) that follows the forced wrap on k.
FollowingGet == ForcedWrap(last) /\ last'.op = "get" /\ last'.key = last.key

\* C10 as claimed: a forceRefresh wrap always invokes fn, overwrites the entry
\* with its result and returns it, and a following get(k) returns that result.
C10_Original ==
    [][/\ ForcedWrap(last') => Refreshed(last', store', options', now')
       /\ FollowingGet => last'.ret = last.value]_vars

\* C10, amended: the following get(k) returns the new result when the resolved
\* ttl is not negative (the stored expiresAt has not passed).
C10_ForceRefresh ==
    [][/\ ForcedWrap(last') => Refreshed(last', store', options', now')
       /\ (FollowingGet /\ ~ExpiresAtPassed(StoreGetMeta(store, last.key)[1], now))
             => last'.ret = last.value]_vars

\* A forced wrap over a live "a" stored "b", which a get at that instant returns.
C10_Witness ==
    /\ ForcedWrap(last) /\ last.hit = "a" /\ last.called /\ last.ret = "b"
    /\ NovaGet(store, last.key, now).ret = "b"

\* The entry c wrote for its key is what s holds: fn's result under expiresAt.
\* (FsCacheStore.get does not return an entry whose value is undefined.)
StoredBy(c, s, expiresAt) ==
    /\ StoreGetMeta(s, c.key) = Some([key |-> c.key, expiresAt |-> expiresAt])
    /\ (c.value # Undefined
          => StoreGet(s, c.key) = Some([key |-> c.key, value |-> c.value, expiresAt |-> expiresAt]))

\* The latest write on k not followed by a delete or clear was wrap's, with a ttl d > 0.
WrittenWithTTL(k) ==
    /\ lastSet[k] # None /\ lastSet[k][1].by = "wrap"
    /\ lastSet[k][1].ttl # None /\ lastSet[k][1].ttl[1] > 0

\* That entry has not expired / has expired at the current clock reading.
StillLive(k) == WrittenWithTTL(k) /\ now <= lastSet[k][1].t + lastSet[k][1].ttl[1]
HasExpired(k) == WrittenWithTTL(k) /\ now > lastSet[k][1].t + lastSet[k][1].ttl[1]

\* On a miss, wrap(k, fn, {ttl: d}) with d > 0 invokes fn, stores its result
\* under k with expiresAt = now + d and returns it.
MissStores ==
    (/\ last'.op = "wrap" /\ ~last'.disableCache /\ last'.hit = Undefined
     /\ last'.ok /\ last'.ttl # None /\ last'.ttl[1] > 0)
    => /\ last'.called
       /\ last'.ret = last'.value
       /\ StoredBy(last', store', Some(now + last'.ttl[1]))

\* A later wrap on a live entry returns the cached value, without fn or a write.
LiveWrapHits(k) == ~last'.called /\ last'.ret = lastSet[k][1].value /\ store' = store

\* The first wrap after the entry expired invokes fn and stores a fresh entry.
ExpiredWrapRefills(k) ==
    (HasExpired(k) /\ PlainWrap(last', k) /\ last'.ok)
    => /\ last'.called
       /\ last'.ret = last'.value
       /\ StoredBy(last', store', ExpectedExpiresAt(last'.ttl, options.ttl, now))

\* C11 as claimed: a miss with ttl d > 0 stores fn's result with that TTL, every
\* later wrap on k before the entry expires returns the cached value without
\* invoking fn, and the first wrap after it expired invokes fn and stores afresh.
C11_Original ==
    [][/\ MissStores
       /\ \A k \in Keys :
             /\ (StillLive(k) /\ PlainWrap(last', k)) => LiveWrapHits(k)
             /\ ExpiredWrapRefills(k)]_vars

\* C11, amended: the later wraps return the cached value without invoking fn
\* when the value stored is not undefined.
C11_WrapTTL ==
    [][/\ MissStores
       /\ \A k \in Keys :
             /\ (StillLive(k) /\ lastSet[k][1].value # Undefined /\ PlainWrap(last', k))
                   => LiveWrapHits(k)
             /\ ExpiredWrapRefills(k)]_vars

\* A wrap with ttl 1 found the entry written with ttl 1 expired and stored "b".
C11_Witness ==
    /\ PlainWrap(last, "k1") /\ ~last.absent /\ last.hit = Undefined
    /\ last.called /\ last.ret = "b" /\ last.ttl = Some(1)
    /\ now = MaxTime
    /\ StoreGet(store, "k1") = Some([key |-> "k1", value |-> "b", expiresAt |-> Some(now + 1)])

\* This step is a wrap whose producer fn failed: the failure reached the caller.
FailedWrap == last'.op = "wrap" /\ last'.called /\ last'.value = Throws

\* The failure propagates: wrap's caller gets fn's failure, not a value.
Propagates == ~last'.ok /\ last'.ret = Throws

\* The adapter's entry for k (presence, value and expiresAt) is the same after the step.
EntryUnchanged(k) ==
    /\ StoreGet(store', k) = StoreGet(store, k)
    /\ StoreGetMeta(store', k) = StoreGetMeta(store, k)

\* wrap's own get finds an entry for k whose expiresAt has passed.
FindsExpired(k) == StoreGet(store, k) # None /\ ExpiresAtPassed(StoreGet(store, k)[1], now)

SetKeys == {k \in Keys : lastSet[k] # None}

\* C13: meta() returns exactly one metadata record for every key that has been
\* set and not removed by a later delete or clear call, whether or not its
\* expiresAt has passed; the number of records is the number of such keys.
C13_MetaListsSetKeys ==
    last.op = "meta" =>
        /\ last.ok
        /\ {m.key : m \in last.list} = SetKeys
        /\ Cardinality(last.list) = Cardinality(SetKeys)

\* C14: setDefaultTTL(t) makes t the default, which stays the default until the
\* next setDefaultTTL; every set or wrap that passes no ttl computes expiresAt
\* from the default current at the call; and setDefaultTTL leaves the adapter,
\* so the expiresAt of every entry already stored, unchanged.
C14_SetDefaultTTL ==
    [][/\ last'.op = "setDefaultTTL" => (options'.ttl = last'.ttl /\ store' = store)
       /\ last'.op # "setDefaultTTL" => options' = options
       /\ (RanSet(last') /\ last'.ttl = None)
             => StoredBy(last', store', ExpectedExpiresAt(None, options.ttl, now))]_vars

\* setDefaultTTL(1) after set(k1, "a") under no default: the entry still has no expiresAt.
C14_Witness ==
    /\ last.op = "setDefaultTTL" /\ last.ttl = Some(1) /\ options.ttl = Some(1)
    /\ lastSet["k1"] # None
    /\ lastSet["k1"][1].ttl = None /\ lastSet["k1"][1].dflt = None
    /\ StoreGet(store, "k1") = Some([key |-> "k1", value |-> "a", expiresAt |-> None])

\* The adapter holds nothing for k in s: get(k) returns absent and has(k) false, at any time.
Gone(s, k) ==
    /\ StoreGet(s, k) = None
    /\ StoreGetMeta(s, k) = None
    /\ \A t \in 0 .. MaxTime : NovaGet(s, k, t).ret = Undefined /\ ~NovaHas(s, k, t)

\* C15: delete(k) does not fail; on a key with no entry it leaves the adapter
\* state unchanged; on a present key it removes the entry, so that get(k)
\* returns absent and has(k) returns false afterwards.
C15_DeleteIdempotent ==
    [][/\ last'.op = "delete"
          => /\ last'.ok
             /\ Gone(store', last'.key)
             /\ (last'.absent => store' = store)
       /\ (last.op = "delete" /\ last'.op = "get" /\ last'.key = last.key)
             => last'.ret = Undefined
       /\ (last.op = "delete" /\ last'.op = "has" /\ last'.key = last.key)
             => last'.ret = "false"]_vars

\* A delete(k1) on a key that held an entry left nothing of it.
C15_Witness ==
    last.op = "delete" /\ last.key = "k1" /\ ~last.absent /\ Gone(store, "k1")

\* C16: once clear() has completed (no other call in flight), on the memory
\* store and on the filesystem store alike, get(k) returns absent and has(k)
\* returns false for every key k, and meta() succeeds and returns an empty list.
C16_ClearEmpties ==
    last.op = "clear" =>
        /\ \A k \in Keys : Gone(store, k)
        /\ NovaMeta(store).ok
        /\ NovaMeta(store).list = {}

\* Both processes made a set call on key k, the two were in flight together,
\* and both have returned.
TwoSetsDone(k) ==
    /\ calls.together
    /\ \A p \in Procs : calls.of[p].op = "set" /\ calls.of[p].key = k /\ calls.of[p].pc = "done"

\* The call whose store.set write completed last.
LastWriter == calls.written[Len(calls.written)]

\* C17: after two set calls on the same key that were in flight at the same
\* time have both completed, the adapter holds exactly the entry (value and
\* expiresAt) of the call whose adapter write completed last.
C17_LastWriteWins ==
    \A k \in Keys :
        TwoSetsDone(k) =>
            StoreGet(store, k) = Some([key |-> k, value |-> calls.of[LastWriter].value,
                                       expiresAt |-> calls.of[LastWriter].expiresAt])

\* p's wrap on k (no disableCache) has read the store and found nothing.
Missed(p, k) ==
    LET c == calls.of[p] IN
    /\ c.op = "wrap" /\ c.key = k /\ ~c.disableCache
    /\ c.pc \in {"fn", "set", "done"} /\ c.entry = None

\* Two wraps on k were in flight together and each read the store before the
\* other had written its result there: both found nothing.
BothMissed(k) == calls.together /\ \A p \in Procs : Missed(p, k)

\* store.set has completed for p's call.
HasWritten(p) == \E i \in 1 .. Len(calls.written) : calls.written[i] = p

\* C18: when two wrap(k, fn) calls on an absent key are in flight together and
\* neither has written when the other reads the store, each invokes fn itself
\* (fn runs twice) and each, once fn has resolved, writes its own result to k
\* and returns it.
C18_NoSingleFlight ==
    \A k \in Keys :
        BothMissed(k) =>
            /\ Cardinality({p \in Procs : calls.of[p].called}) = 2
            /\ \A p \in Procs :
                  LET c == calls.of[p] IN
                  /\ (c.pc = "done" /\ c.value # Throws) => (HasWritten(p) /\ c.ret = c.value)
                  /\ (c.pc = "set" /\ c.pending = {}) => HasWritten(p)
                  /\ HasWritten(p) => c.value # Throws

\* Both wraps missed, ran fn ("a" and "b"), wrote and returned their own result.
C18_Witness ==
    /\ BothMissed("k1")
    /\ calls.of["p1"].pc = "done" /\ calls.of["p1"].ret = "a"
    /\ calls.of["p2"].pc = "done" /\ calls.of["p2"].ret = "b"
    /\ Len(calls.written) = 2
    /\ StoreGetMeta(store, "k1") # None

\* C19: if the adapter's delete fails while get(k) is evicting an expired
\* entry, get(k) still returns absent to its caller: the read does not fail.
C19_BestEffortCleanup ==
    [][(\E key \in OpKeys : GetDeleteFails(key))
          => (last'.ok /\ last'.ret = Undefined)]_vars

\* The entry e counts as expired at time t: it has an expiresAt and t is greater.
StrictlyAfter(e, t) == e.expiresAt # None /\ t > e.expiresAt[1]

\* C20: the expiration check is a strict greater-than.  For an entry the
\* adapter holds for k: a get(k) or has(k) made when the clock equals its
\* expiresAt, or when it has no expiresAt, returns the value / true, and one
\* made at any greater clock reading returns absent / false.
C20_StrictExpiry ==
    [][\A k \in Keys :
          StoreGet(store, k) # None =>
              LET e == StoreGet(store, k)[1] IN
              /\ (last'.op = "get" /\ last'.key = k)
                    => last'.ret = IF StrictlyAfter(e, now) THEN Undefined ELSE e.value
              /\ (last'.op = "has" /\ last'.key = k)
                    => last'.ret = IF StrictlyAfter(e, now) THEN "false" ELSE "true"]_vars

\* has(k1) returned true at the very instant now = expiresAt, one tick after the set.
C20_Witness ==
    /\ last.op = "has" /\ last.key = "k1" /\ last.ret = "true"
    /\ StoreGetMeta(store, "k1") = Some([key |-> "k1", expiresAt |-> Some(now)])
    /\ lastSet["k1"] # None /\ lastSet["k1"][1].t < now

\* The value the adapter holds for k, as stored (the Map entry's, the value file's).
StoredValue(s, k) == IF s.kind = "memory" THEN s.map[k][1].value ELSE getValue(s, k)

\* C21: set is a full replacement.  After set(k, v2, ttl), whatever entry k
\* held before, the adapter holds for k the value v2 and the one metadata
\* record whose expiresAt comes from the TTL this call resolved (none when it
\* resolved to no expiration, even though the entry replaced had one).
C21_SetReplaces ==
    [][last'.op = "set" =>
          LET k == last'.key
              expiresAt == ExpectedExpiresAt(last'.ttl, options.ttl, now)
          IN  /\ StoreGetMeta(store', k) = Some([key |-> k, expiresAt |-> expiresAt])
              /\ ListedMeta(store', k) = {[key |-> k, expiresAt |-> expiresAt]}
              /\ StoredValue(store', k) = last'.value
              /\ (StoreGet(store', k) # None => StoreGet(store', k)[1].expiresAt = expiresAt)]_vars

\* set(k1, "b", 0) over an entry that had an expiresAt: "b" without expiresAt.
C21_Witness ==
    /\ last.op = "set" /\ last.key = "k1" /\ last.over /\ last.ttl = Some(0)
    /\ StoreGet(store, "k1") = Some([key |-> "k1", value |-> "b", expiresAt |-> None])

\* c is a set whose ttl resolved to a negative duration under the default opts.
NegativeSet(c, opts) ==
    /\ c.op = "set"
    /\ \/ c.ttl # None /\ c.ttl[1] < 0
       \/ c.ttl = None /\ opts.ttl # None /\ opts.ttl[1] < 0

\* The set completed and the stored expiresAt is earlier than the time of the call.
StoredExpired ==
    NegativeSet(last', options') =>
        /\ last'.ok
        /\ StoreGetMeta(store', last'.key) # None
        /\ ExpiresAtPassed(StoreGetMeta(store', last'.key)[1], now')

\* The has(k) that follows at once returns false.
HasAfterNegative ==
    (NegativeSet(last, options) /\ last'.op = "has" /\ last'.key = last.key)
    => last'.ret = "false"

\* This step is the get(k) that follows the negative set at once.
GetAfterNegative == NegativeSet(last, options) /\ last'.op = "get" /\ last'.key = last.key

\* The get left nothing of the entry in the adapter.
Evicted == StoreGetMeta(store', last.key) = None /\ ListedMeta(store', last.key) = {}

\* C22 as claimed: a negative ttl (explicit, or the default when none is passed)
\* is accepted and stores an expiresAt earlier than the call; the has(k) that
\* follows returns false and the get(k) that follows returns absent and evicts.
C22_Original ==
    [][/\ StoredExpired
       /\ HasAfterNegative
       /\ GetAfterNegative => (last'.ret = Undefined /\ Evicted)]_vars

\* C22, amended: the get evicts the entry unless the value stored is undefined
\* on the filesystem store, where get does not find the entry and leaves it.
C22_NegativeTTL ==
    [][/\ StoredExpired
       /\ HasAfterNegative
       /\ GetAfterNegative =>
             /\ last'.ret = Undefined
             /\ IF last.value = Undefined /\ store.kind = "fs"
                THEN store' = store
                ELSE Evicted]_vars

\* get(k1) right after set(k1, "a", -1): absent, and the entry is gone.
C22_Witness ==
    /\ last.op = "get" /\ last.key = "k1" /\ last.ret = Undefined /\ ~last.absent
    /\ lastSet["k1"] # None /\ lastSet["k1"][1].by = "set"
    /\ lastSet["k1"][1].value = "a" /\ lastSet["k1"][1].ttl = Some(-1)
    /\ lastSet["k1"][1].t = now
    /\ StoreGetMeta(store, "k1") = None

\* The default ttl instance n applies in heap h: this.options.ttl.
DefaultTTL(h, n) == h.config[h.nova[n][1]][1].ttl

\* C23: setDefaultTTL on one instance changes neither the default ttl of any
\* other instance nor the configuration object the caller passed to the
\* constructor, also when two instances were built from the same object.
C23_InstancesIndependent ==
    [][\A n \in Instances, ttl \in Durations :
          NovaSetDefaultTTL(n, ttl) =>
              /\ heap'.config = heap.config
              /\ \A m \in Instances \ {n} :
                    heap.nova[m] # None => DefaultTTL(heap', m) = DefaultTTL(heap, m)]_vars

\* The entry the adapter holds for k has not expired.
LiveEntry(s, k, t) == StoreGet(s, k) # None /\ ~isExpired(StoreGet(s, k)[1], t)

\* This step carries out the delete that p's get(k) issued after it read an
\* expired entry (Map.delete inside the call, or one of the two removes).
EvictionOf(p) ==
    /\ calls.of[p].op = "get"
    /\ \/ GetReturns(p) /\ calls'.of[p].pc = "evict"
       \/ \E f \in {"meta", "value"} : RemoveFile(p, f)

\* C24: under every interleaving of get(k) with set(k, ...) or wrap on k, the
\* delete that get issues after reading an expired entry never removes an
\* entry that has not expired: a live entry is still there after the delete.
C24_EvictsOnlyExpired ==
    [][\A p \in Procs :
          (EvictionOf(p) /\ LiveEntry(store, calls.of[p].key, now))
          => StoreGet(store', calls.of[p].key) = StoreGet(store, calls.of[p].key)]_vars

\* What the adapter holds under key k: the Map's entry, or the two files.
EntryAt(s, k) ==
    IF s.kind = "memory" THEN <<s.map[k]>>
    ELSE <<s.metaFile[getPaths(k).meta], s.valueFile[getPaths(k).value]>>

\* The keys whose entry this step changes.
Touched == {k \in Keys : EntryAt(store', k) # EntryAt(store, k)}

\* This step belongs to p's call (get, set, delete, has or wrap).
StepOf(p) == calls'.of[p] # calls.of[p]

\* C25: every step of a get, set, delete, has or wrap call on key k, whatever
\* another call does in between, leaves what the adapter holds for every other
\* key as it was (presence, value, expiresAt); a step that changes more than
\* one key's entry is a clear.
C25_KeyIsolation ==
    [][/\ \A p \in Procs : StepOf(p) => Touched \subseteq {calls'.of[p].key}
       /\ \A key \in Keys : Populate(key, "b", None) => Touched \subseteq {key}
       /\ Cardinality(Touched) > 1 => ClearAll]_vars

\* delete("k1") and a call on "k2" were in flight together and have returned:
\* the entry of "k1" is gone, the one set for "k2" is as it was written.
C25_Witness ==
    /\ calls.together
    /\ calls.of["p1"].op = "delete" /\ calls.of["p1"].key = "k1" /\ calls.of["p1"].pc = "done"
    /\ calls.of["p2"].op = "has" /\ calls.of["p2"].key = "k2" /\ calls.of["p2"].pc = "done"
    /\ lastSet["k1"] # None /\ lastSet["k2"] # None
    /\ EntryAt(store, "k1") = EntryAt(NewStore(store.kind), "k1")
    /\ StoreGet(store, "k2") # None /\ StoreGet(store, "k2")[1].value = "b"

====
